---- MODULE Spec2Model ----
(***************************************************************************)
(* A model of src/forge/forge.cpp: the Forge hooking context (hook table,  *)
(* window interceptor, shader configuration, graphics backend              *)
(* registration) and the window message pump it runs on the UI thread.     *)
(***************************************************************************)
EXTENDS Integers, Sequences, FiniteSets, TLC

(***************************************************************************)
(* Bounds of the model.                                                    *)
(***************************************************************************)
\* longest shader source text passed to a setter
MaxSrcLen == 1
\* number of window handles the original CreateWindowExA can hand out
MaxHandles == 1
\* posted messages the UI thread's queue holds before PostMessage fails
MaxQueue == 2
\* number of runWndProc calls
MaxRuns == 2
\* number of endWndProc calls
MaxStops == 1

(***************************************************************************)
(* Program constants.                                                      *)
(***************************************************************************)
\* NULL / nullptr for handles and object pointers
NULL == 0

\* the three entries of hooks_, in the order Inject and Restore visit them
HookNames == {"CreateWindowExA", "GetSystemMetrics", "GetProcAddress"}

\* window class names a creation request can carry; strcmp is exact
ClassNames == {"SWarClass", "swarclass", "Other"}

\* characters of a script string: 0 is an embedded NUL, 1 an ordinary character
Chars == {0, 1}

\* the string arguments a shader setter can receive
ShaderArgs == UNION {[1..n -> Chars] : n \in 0..MaxSrcLen}

Handles == 1..MaxHandles

\* the backend object DirectGlawCreate constructs and offers for registration
TheDirectGlaw == 1

\* window messages: the sentinel of line 136, the message that makes GetMessage
\* return 0, a close request, one of the non-client/paint messages of lines
\* 230-236, and one message of no special class
Sentinel == "WM_END_WND_PROC_WORKER"
AppMsgs == {"WM_QUIT", "WM_CLOSE", "WM_NCPAINT", "WM_KEYDOWN"}
Msgs == AppMsgs \cup {Sentinel}

\* the work items (WndProcContext objects) runWndProc can create
ItemIds == 1..MaxRuns

\* a char* field: <<>> is nullptr, <<t>> points to the C string t
NullStr == <<>>

VARIABLES
  instance,             \* Forge::instance_ # nullptr
  contexts,             \* number of Forge objects constructed and not yet destroyed
  hooks,                \* hooks_: entry -> currently injected
  window_handle,        \* window_handle_
  original_wndproc,     \* original_wndproc_
  direct_glaw,          \* direct_glaw_
  vertex_shader_src,    \* vertex_shader_src_
  fragment_shader_src,  \* fragment_shader_src_
  fatal,                \* an assert failed (or an uncaught exception): the process is gone
  os_wndproc,           \* per window handle: the procedure installed (GWL_WNDPROC)
  glaw,                 \* the backend: references held by the context, shaders pushed
  msg_queue,            \* posted messages of the UI thread, oldest first
  items,                \* the WndProcContext of each run, and what happened to it
  created,              \* number of WndProcContext objects created so far
  work_queue,           \* work queued for the UI thread, oldest first
  ui_running,           \* the item whose worker the UI thread is executing, or 0
  after_queue,          \* finished work whose after-callback the control thread owes
  idle_end,             \* whether endWndProc posted its sentinel with no pump running or queued
  stops,                \* number of endWndProc calls that passed the assert
  last                  \* the operation the latest step performed, and what it did

ctx == <<instance, contexts, hooks, window_handle, original_wndproc, direct_glaw,
         vertex_shader_src, fragment_shader_src>>
pump == <<msg_queue, items, created, work_queue, ui_running, after_queue, idle_end,
          stops>>
vars == <<instance, contexts, hooks, window_handle, original_wndproc, direct_glaw,
          vertex_shader_src, fragment_shader_src, fatal, os_wndproc, glaw,
          msg_queue, items, created, work_queue, ui_running, after_queue,
          idle_end, stops, last>>

NoAttempts == [n \in HookNames |-> "none"]

\* a WndProcContext that does not exist yet.  state is where the item is
\* (new, queued, running, returned, freed), quit is context->quit, ended is how
\* the worker left its loop, calls counts invocations of context->cb, flag is
\* the argument of the latest one, thread and cb_state are the thread that
\* made it and the item's state when it was made, idle_end is idle_end as it
\* was when the run was scheduled
NoItem ==
  [state |-> "new", quit |-> FALSE, ended |-> "none", calls |-> 0,
   flag |-> FALSE, thread |-> "none", cb_state |-> "none", idle_end |-> "none"]

\* the record of a step: which operation ran and on what arguments, what it
\* returned (FALSE also when an assert stopped it), which hook
\* entries it called and with what result, the hook table before it, and the
\* calls it made to the original (unhooked) function
Did(op, arg, result, attempts, before, origCalls) ==
  [op |-> op, arg |-> arg, result |-> result, attempts |-> attempts,
   before |-> before, origCalls |-> origCalls, ret |-> 0]

\* the same record for an intercepted function that returns ret to its caller
Returned(did, ret) == [did EXCEPT !.ret = ret]

\* the arguments of a call: the number of script arguments and the string
\* among them, or the window class (lpClassName) or symbol name (lpProcName)
\* of an intercepted call and its other parameters
NoArg == [argc |-> 0, text |-> <<>>, class |-> "", params |-> <<>>]
ScriptArgs(argc, text) == [argc |-> argc, text |-> text, class |-> "", params |-> <<>>]
CreateArgs(class, req) == [argc |-> 0, text |-> <<>>, class |-> class, params |-> req]

Op(op) == Did(op, NoArg, TRUE, NoAttempts, hooks, <<>>)

(***************************************************************************)
(* Hook Entry (common/func_hook.h is not part of the sources; modelled     *)
(* from the specification, section 4.1): an entry already in the target    *)
(* state is a no-op success, otherwise the patch is attempted and either   *)
(* succeeds, changing the state, or fails, leaving it.                     *)
(***************************************************************************)
ImportHookInject(active, patchOk) ==
  [active |-> active \/ patchOk, result |-> active \/ patchOk]

ImportHookRestore(active, unpatchOk) ==
  [active |-> active /\ ~unpatchOk, result |-> ~active \/ unpatchOk]

AttemptOf(result) == IF result THEN "ok" ELSE "failed"

\* result &&= entry->Inject(): later entries are skipped after a failure
InjectStepShortCircuit(acc, name, oks) ==
  IF ~acc.result THEN acc
  ELSE LET r == ImportHookInject(acc.hooks[name], oks[name])
       IN [hooks |-> [acc.hooks EXCEPT ![name] = r.active],
           result |-> acc.result /\ r.result,
           attempts |-> [acc.attempts EXCEPT ![name] = AttemptOf(r.result)]]

\* result &= instance_->hooks_.<name>->Inject();
InjectStep(acc, name, oks) ==
  LET r == ImportHookInject(acc.hooks[name], oks[name])
  IN [hooks |-> [acc.hooks EXCEPT ![name] = r.active],
      result |-> acc.result /\ r.result,
      attempts |-> [acc.attempts EXCEPT ![name] = AttemptOf(r.result)]]

\* result = entry->Restore(): the result of the latest entry replaces the rest
RestoreStepOverwrite(acc, name, oks) ==
  LET r == ImportHookRestore(acc.hooks[name], oks[name])
  IN [hooks |-> [acc.hooks EXCEPT ![name] = r.active],
      result |-> r.result,
      attempts |-> [acc.attempts EXCEPT ![name] = AttemptOf(r.result)]]

\* result &= instance_->hooks_.<name>->Restore();
RestoreStep(acc, name, oks) ==
  LET r == ImportHookRestore(acc.hooks[name], oks[name])
  IN [hooks |-> [acc.hooks EXCEPT ![name] = r.active],
      result |-> acc.result /\ r.result,
      attempts |-> [acc.attempts EXCEPT ![name] = AttemptOf(r.result)]]

\* bool result = false;
HookStartFalse(h) == [hooks |-> h, result |-> FALSE, attempts |-> NoAttempts]

\* bool result = true;
HookStart(h) == [hooks |-> h, result |-> TRUE, attempts |-> NoAttempts]

InjectAll(h, oks) ==
  InjectStep(InjectStep(InjectStep(HookStart(h),
    "CreateWindowExA", oks), "GetSystemMetrics", oks), "GetProcAddress", oks)

RestoreAll(h, oks) ==
  RestoreStep(RestoreStep(RestoreStep(HookStart(h),
    "CreateWindowExA", oks), "GetSystemMetrics", oks), "GetProcAddress", oks)

\* Forge::Inject
Inject ==
  /\ ~fatal /\ instance
  /\ \E oks \in [HookNames -> BOOLEAN] :
       LET r == InjectAll(hooks, oks)
       IN /\ hooks' = r.hooks
          /\ last' = Did("Inject", NoArg, r.result, r.attempts, hooks, <<>>)
  /\ UNCHANGED <<instance, contexts, window_handle, original_wndproc, direct_glaw,
                 vertex_shader_src, fragment_shader_src, fatal, os_wndproc, glaw,
                 pump>>

\* Forge::Restore
Restore ==
  /\ ~fatal /\ instance
  /\ \E oks \in [HookNames -> BOOLEAN] :
       LET r == RestoreAll(hooks, oks)
       IN /\ hooks' = r.hooks
          /\ last' = Did("Restore", NoArg, r.result, r.attempts, hooks, <<>>)
  /\ UNCHANGED <<instance, contexts, window_handle, original_wndproc, direct_glaw,
                 vertex_shader_src, fragment_shader_src, fatal, os_wndproc, glaw,
                 pump>>

\* the state Forge::Forge leaves, but for the hook table and the step record
Constructed ==
  /\ instance = TRUE
  /\ contexts = 1
  /\ window_handle = NULL
  /\ original_wndproc = "nullptr"
  /\ direct_glaw = NULL
  /\ vertex_shader_src = NullStr
  /\ fragment_shader_src = NullStr
  /\ fatal = FALSE
  /\ os_wndproc = [h \in Handles |-> "none"]
  /\ glaw = [refs |-> 0, vs |-> NullStr, fs |-> NullStr]
  /\ msg_queue = <<>>
  /\ items = [i \in ItemIds |-> NoItem]
  /\ created = 0
  /\ work_queue = <<>>
  /\ ui_running = 0
  /\ after_queue = <<>>
  /\ idle_end = "none"
  /\ stops = 0

\* Forge::Forge: every entry resolved, none injected
Init ==
  /\ Constructed
  /\ hooks = [n \in HookNames |-> FALSE]
  /\ last = Did("New", NoArg, TRUE, NoAttempts, [n \in HookNames |-> FALSE], <<>>)

(***************************************************************************)
(* Shader configuration.                                                   *)
(***************************************************************************)
RECURSIVE CStr(_)
\* what strcpy_s stores from the characters of a String::AsciiValue: the
\* characters up to, not including, the first NUL
CStr(chars) ==
  IF chars = <<>> \/ Head(chars) = 0 THEN <<>>
  ELSE <<Head(chars)>> \o CStr(Tail(chars))

\* delete[] the old buffer if any, allocate length + 1, strcpy_s into it
StoreShader(which, text) ==
  /\ vertex_shader_src' = IF which = "vertex" THEN <<text>> ELSE vertex_shader_src
  /\ fragment_shader_src' = IF which = "fragment" THEN <<text>> ELSE fragment_shader_src

\* the setter without its assert on window_handle_
SetShaderUnchecked(which, argc, arg) ==
  IF argc < 1
  THEN /\ fatal' = TRUE
       /\ UNCHANGED <<vertex_shader_src, fragment_shader_src>>
  ELSE /\ StoreShader(which, CStr(arg))
       /\ UNCHANGED fatal

\* the body shared by Forge::SetVertexShader and Forge::SetFragmentShader
SetShader(which, argc, arg) ==
  IF window_handle # NULL \/ argc < 1
  THEN /\ fatal' = TRUE
       /\ UNCHANGED <<vertex_shader_src, fragment_shader_src>>
  ELSE /\ StoreShader(which, CStr(arg))
       /\ UNCHANGED fatal

\* Forge::SetVertexShader
SetVertexShader ==
  /\ ~fatal /\ instance
  /\ \E argc \in 0..1, arg \in ShaderArgs :
       /\ SetShader("vertex", argc, arg)
       /\ last' = Did("SetVertexShader", ScriptArgs(argc, arg), TRUE, NoAttempts, hooks, <<>>)
  /\ UNCHANGED <<instance, contexts, hooks, window_handle, original_wndproc, direct_glaw,
                 os_wndproc, glaw, pump>>

\* Forge::SetFragmentShader
SetFragmentShader ==
  /\ ~fatal /\ instance
  /\ \E argc \in 0..1, arg \in ShaderArgs :
       /\ SetShader("fragment", argc, arg)
       /\ last' = Did("SetFragmentShader", ScriptArgs(argc, arg), TRUE, NoAttempts, hooks, <<>>)
  /\ UNCHANGED <<instance, contexts, hooks, window_handle, original_wndproc, direct_glaw,
                 os_wndproc, glaw, pump>>

(***************************************************************************)
(* Window Interceptor.                                                     *)
(***************************************************************************)
\* the indices of GetSystemMetrics the program names
SM_CXSCREEN == 0
SM_CYSCREEN == 1
SM_CXFULLSCREEN == 16
SM_CYFULLSCREEN == 17

\* int width = 640; int height = 480;
width == 640
height == 480

\* DWORD style = WS_POPUP | WS_VISIBLE | WS_CAPTION | WS_SYSMENU;
style == {"WS_POPUP", "WS_VISIBLE", "WS_CAPTION", "WS_SYSMENU"}

\* the style, position and size a creation request can carry; others stands
\* for dwExStyle, lpWindowName, hWndParent, hMenu, hInstance and lpParam
Requests ==
  {[dwStyle |-> {"WS_POPUP"}, x |-> 0, y |-> 0, nWidth |-> 640, nHeight |-> 480,
    others |-> 0],
   [dwStyle |-> {"WS_OVERLAPPED", "WS_VISIBLE"}, x |-> 100, y |-> 50,
    nWidth |-> 800, nHeight |-> 600, others |-> 1]}

\* the width and height of the desktop, which the platform's GetSystemMetrics
\* reports for SM_CXSCREEN and SM_CYSCREEN
ScreenSizes == {<<1024, 768>>, <<639, 479>>}

\* integer division of C: the quotient is truncated toward zero
CDiv(a, b) == IF a >= 0 THEN a \div b ELSE -((-a) \div b)

\* AdjustWindowRect(&rect, style, FALSE): the outer rectangle of a window
\* whose client area is rect; a captioned window has a frame and a title bar
FrameSize(st) == IF "WS_CAPTION" \in st THEN 3 ELSE 0
CaptionSize(st) == IF "WS_CAPTION" \in st THEN 23 ELSE 0
AdjustWindowRect(rect, st) ==
  [left |-> rect.left - FrameSize(st),
   top |-> rect.top - FrameSize(st) - CaptionSize(st),
   right |-> rect.right + FrameSize(st),
   bottom |-> rect.bottom + FrameSize(st)]

\* a client area that is not centered: the division by two is missing
ClientRectNotHalved(screen) ==
  [left |-> screen[1] - 640, top |-> screen[2] - 480,
   right |-> (screen[1] - 640) + width, bottom |-> (screen[2] - 480) + height]

\* lines 261-272: the 640x480 client area, centered over what
\* GetSystemMetrics(SM_CXSCREEN) and GetSystemMetrics(SM_CYSCREEN) returned
ClientRect(screen) ==
  [left |-> CDiv(screen[1] - 640, 2), top |-> CDiv(screen[2] - 480, 2),
   right |-> CDiv(screen[1] - 640, 2) + width,
   bottom |-> CDiv(screen[2] - 480, 2) + height]

\* lines 278-280: the request with style and geometry replaced
Rewritten(req, rect) ==
  [req EXCEPT !.dwStyle = style, !.x = rect.left, !.y = rect.top,
              !.nWidth = rect.right - rect.left,
              !.nHeight = rect.bottom - rect.top]

\* what the original CreateWindowExA can return: NULL on failure, or the
\* handle of a window that did not exist before
CreateResults == {NULL} \cup {h \in Handles : os_wndproc[h] = "none"}

\* the window the original function created, with the application's procedure
Created(w, h) == IF h = NULL THEN w ELSE [w EXCEPT ![h] = "AppWndProc"]

\* GetWindowLong(handle, GWL_WNDPROC): 0 for a handle that is no window
GetWindowLong(w, h) == IF h = NULL THEN "nullptr" ELSE w[h]

\* SetWindowLong(handle, GWL_WNDPROC, proc): fails for a handle that is no window
SetWindowLong(w, h, proc) == IF h = NULL THEN w ELSE [w EXCEPT ![h] = proc]

\* the call made to the original creation function, with the style, geometry
\* and other arguments passed
OrigCreate(class, passed, rewritten, ret) ==
  [fn |-> "CreateWindowExA", arg |-> class, rewritten |-> rewritten, ret |-> ret,
   params |-> passed]

\* a call the hook makes to the platform's GetSystemMetrics through the
\* import of its own module, which is not the patched import of the process
MetricsCall(nIndex, ret) ==
  [fn |-> "GetSystemMetrics", arg |-> "", rewritten |-> FALSE, ret |-> ret,
   params |-> <<nIndex>>]

\* the calls of a matching request, in order
MatchCalls(class, req, screen, ret) ==
  <<MetricsCall(SM_CXSCREEN, screen[1]), MetricsCall(SM_CYSCREEN, screen[2]),
    OrigCreate(class, Rewritten(req, AdjustWindowRect(ClientRect(screen), style)),
               TRUE, ret)>>

\* the hook without its assert on window_handle_
CreateWindowMatchUnchecked(class, req, screen, ret) ==
  LET w1 == Created(os_wndproc, ret)
  IN /\ window_handle' = ret
     /\ original_wndproc' = GetWindowLong(w1, ret)
     /\ os_wndproc' = SetWindowLong(w1, ret, "ForgeWndProc")
     /\ last' = Returned(Did("CreateWindowExAHook", CreateArgs(class, req), TRUE,
                             NoAttempts, hooks, MatchCalls(class, req, screen, ret)),
                         ret)
     /\ UNCHANGED fatal

\* lines 258-285: a request for the game window class
CreateWindowMatch(class, req, screen, ret) ==
  IF window_handle # NULL
  THEN /\ fatal' = TRUE
       /\ last' = Did("CreateWindowExAHook", CreateArgs(class, req), FALSE,
                      NoAttempts, hooks, <<>>)
       /\ UNCHANGED <<window_handle, original_wndproc, os_wndproc>>
  ELSE LET w1 == Created(os_wndproc, ret)
       IN /\ window_handle' = ret
          /\ original_wndproc' = GetWindowLong(w1, ret)
          /\ os_wndproc' = SetWindowLong(w1, ret, "ForgeWndProc")
          /\ last' = Returned(Did("CreateWindowExAHook", CreateArgs(class, req), TRUE,
                                  NoAttempts, hooks,
                                  MatchCalls(class, req, screen, ret)),
                              ret)
          /\ UNCHANGED fatal

\* every class is treated as the game window's: the request is rewritten and
\* the window recorded and chained
CreateWindowPassthroughAsMatch(class, req, screen, ret) ==
  CreateWindowMatch(class, req, screen, ret)

\* lines 254-257: any other class is forwarded unchanged
CreateWindowPassthrough(class, req, screen, ret) ==
  /\ os_wndproc' = Created(os_wndproc, ret)
  /\ last' = Returned(Did("CreateWindowExAHook", CreateArgs(class, req), TRUE,
                          NoAttempts, hooks, <<OrigCreate(class, req, FALSE, ret)>>),
                      ret)
  /\ UNCHANGED <<window_handle, original_wndproc, fatal>>

\* Forge::CreateWindowExAHook, entered through the patched import
CreateWindowExAHook ==
  /\ ~fatal /\ instance /\ hooks["CreateWindowExA"]
  /\ \E class \in ClassNames, req \in Requests, ret \in CreateResults :
       IF class # "SWarClass"
       THEN CreateWindowPassthrough(class, req, <<0, 0>>, ret)
       ELSE \E screen \in ScreenSizes : CreateWindowMatch(class, req, screen, ret)
  /\ UNCHANGED <<instance, contexts, hooks, direct_glaw, vertex_shader_src,
                 fragment_shader_src, glaw, pump>>


(***************************************************************************)
(* Metrics Spoofer.                                                        *)
(***************************************************************************)
\* the indices a query can carry: the four the program names and two others
MetricIndices ==
  {SM_CXSCREEN, SM_CYSCREEN, SM_CXFULLSCREEN, SM_CYFULLSCREEN, 2, 15}

\* what the original GetSystemMetrics can return
MetricResults == {-1, 0, 1024}

IndexArg(nIndex) == [argc |-> 0, text |-> <<>>, class |-> "", params |-> <<nIndex>>]

\* the spoofer answers the width indices only; heights are forwarded
GetSystemMetricsHookWidthsOnly(nIndex, orig) ==
  IF nIndex \in {SM_CXSCREEN, SM_CXFULLSCREEN}
  THEN [ret |-> 640, origCalls |-> <<>>]
  ELSE [ret |-> orig, origCalls |-> <<MetricsCall(nIndex, orig)>>]

\* lines 290-298: the value returned for nIndex and the calls made, where orig
\* is what the original returns if it is called
GetSystemMetricsHookBody(nIndex, orig) ==
  IF nIndex \in {SM_CXSCREEN, SM_CXFULLSCREEN}
  THEN [ret |-> 640, origCalls |-> <<>>]
  ELSE IF nIndex \in {SM_CYSCREEN, SM_CYFULLSCREEN}
  THEN [ret |-> 480, origCalls |-> <<>>]
  ELSE [ret |-> orig, origCalls |-> <<MetricsCall(nIndex, orig)>>]

\* Forge::GetSystemMetricsHook, entered through the patched import
GetSystemMetricsHook ==
  /\ ~fatal /\ instance /\ hooks["GetSystemMetrics"]
  /\ \E nIndex \in MetricIndices, orig \in MetricResults :
       LET r == GetSystemMetricsHookBody(nIndex, orig)
       IN last' = Returned(Did("GetSystemMetricsHook", IndexArg(nIndex), TRUE,
                               NoAttempts, hooks, r.origCalls),
                           r.ret)
  /\ UNCHANGED <<ctx, fatal, os_wndproc, glaw, pump>>

(***************************************************************************)
(* Symbol Redirector.                                                      *)
(***************************************************************************)
\* the substitute factory, as a function pointer
DirectGlawCreate == 99

\* symbol names a lookup can carry; strcmp is exact
ProcNames == {"DirectDrawCreate", "directdrawcreate", "DirectDrawCreateEx", ""}

\* module handles a lookup can carry
Modules == {1, 2}

\* what the original GetProcAddress can return: NULL or the symbol's address
ProcResults == {NULL, 7}

ProcArgs(hModule, name) ==
  [argc |-> 0, text |-> <<>>, class |-> name, params |-> <<hModule>>]

\* the call made to the original resolver
OrigGetProcAddress(hModule, name, ret) ==
  [fn |-> "GetProcAddress", arg |-> name, rewritten |-> FALSE, ret |-> ret,
   params |-> <<hModule>>]

\* the comparison is limited to the length of the known name (strncmp)
GetProcAddressHookPrefix(hModule, name, orig) ==
  IF name \in {"DirectDrawCreate", "DirectDrawCreateEx"}
  THEN [ret |-> DirectGlawCreate, origCalls |-> <<>>]
  ELSE [ret |-> orig, origCalls |-> <<OrigGetProcAddress(hModule, name, orig)>>]

\* lines 302-307: the pointer returned and the calls made, where orig is what
\* the original returns if it is called
GetProcAddressHookBody(hModule, name, orig) ==
  IF name = "DirectDrawCreate"
  THEN [ret |-> DirectGlawCreate, origCalls |-> <<>>]
  ELSE [ret |-> orig, origCalls |-> <<OrigGetProcAddress(hModule, name, orig)>>]

\* Forge::GetProcAddressHook, entered through the patched import
GetProcAddressHook ==
  /\ ~fatal /\ instance /\ hooks["GetProcAddress"]
  /\ \E hModule \in Modules, name \in ProcNames, orig \in ProcResults :
       LET r == GetProcAddressHookBody(hModule, name, orig)
       IN last' = Returned(Did("GetProcAddressHook", ProcArgs(hModule, name), TRUE,
                               NoAttempts, hooks, r.origCalls),
                           r.ret)
  /\ UNCHANGED <<ctx, fatal, os_wndproc, glaw, pump>>

(***************************************************************************)
(* Graphics Backend registration and the context's lifetime.               *)
(***************************************************************************)
\* direct_glaw->AddRef()
AddRef == [glaw EXCEPT !.refs = @ + 1]

\* direct_glaw->SetVertexShader(...); direct_glaw->SetFragmentShader(...)
PushShaders(gl) ==
  [gl EXCEPT !.vs = vertex_shader_src, !.fs = fragment_shader_src]

\* the three asserts of RegisterDirectGlaw hold
CanRegister ==
  /\ direct_glaw = NULL
  /\ vertex_shader_src # NullStr
  /\ fragment_shader_src # NullStr

\* Forge::RegisterDirectGlaw
RegisterDirectGlaw ==
  /\ ~fatal /\ instance
  /\ IF ~CanRegister
     THEN /\ fatal' = TRUE
          /\ last' = Did("RegisterDirectGlaw", NoArg, FALSE, NoAttempts, hooks, <<>>)
          /\ UNCHANGED <<direct_glaw, glaw>>
     ELSE /\ direct_glaw' = TheDirectGlaw
          /\ glaw' = PushShaders(AddRef)
          /\ last' = Did("RegisterDirectGlaw", NoArg, TRUE, NoAttempts, hooks, <<>>)
          /\ UNCHANGED fatal
  /\ UNCHANGED <<instance, contexts, hooks, window_handle, original_wndproc,
                 vertex_shader_src, fragment_shader_src, os_wndproc, pump>>

\* the destructor forgets the backend without releasing it
ReleaseGlawLeak == glaw

\* if (direct_glaw_) { direct_glaw_->Release(); direct_glaw_ = nullptr; }
ReleaseGlaw ==
  IF direct_glaw # NULL THEN [glaw EXCEPT !.refs = @ - 1] ELSE glaw

\* Forge::~Forge: the object and its fields are gone afterwards
Destroy ==
  /\ ~fatal /\ instance
  /\ instance' = FALSE
  /\ contexts' = contexts - 1
  /\ hooks' = [n \in HookNames |-> FALSE]
  /\ glaw' = ReleaseGlaw
  /\ direct_glaw' = NULL
  /\ vertex_shader_src' = NullStr
  /\ fragment_shader_src' = NullStr
  /\ window_handle' = NULL
  /\ original_wndproc' = "nullptr"
  /\ last' = Op("Destroy")
  /\ UNCHANGED <<fatal, os_wndproc, pump>>

\* the constructor without its assert on instance_
NewUnchecked ==
  /\ ~fatal
  /\ instance' = TRUE
  /\ contexts' = contexts + 1
  /\ hooks' = [n \in HookNames |-> FALSE]
  /\ window_handle' = NULL
  /\ original_wndproc' = "nullptr"
  /\ direct_glaw' = NULL
  /\ vertex_shader_src' = NullStr
  /\ fragment_shader_src' = NullStr
  /\ last' = Op("New")
  /\ UNCHANGED <<fatal, os_wndproc, glaw, pump>>

\* Forge::New / Forge::Forge: assert(instance_ == nullptr); instance_ = this
New ==
  /\ ~fatal
  /\ IF instance
     THEN /\ fatal' = TRUE
          /\ UNCHANGED ctx
     ELSE /\ instance' = TRUE
          /\ contexts' = contexts + 1
          /\ hooks' = [n \in HookNames |-> FALSE]
          /\ window_handle' = NULL
          /\ original_wndproc' = "nullptr"
          /\ direct_glaw' = NULL
          /\ vertex_shader_src' = NullStr
          /\ fragment_shader_src' = NullStr
          /\ UNCHANGED fatal
  /\ last' = Op("New")
  /\ UNCHANGED <<os_wndproc, glaw, pump>>

(***************************************************************************)
(* Chained window procedure.                                               *)
(***************************************************************************)
\* a call the window procedure makes, with the message it passes on
Call(fn, msg) ==
  [fn |-> fn, arg |-> msg, rewritten |-> FALSE, ret |-> NULL, params |-> <<>>]

\* lines 230-236
DefaultClass == {"WM_NCACTIVATE", "WM_NCHITTEST", "WM_NCLBUTTONDOWN",
                 "WM_NCLBUTTONUP", "WM_NCMOUSEMOVE", "WM_NCPAINT", "WM_PAINT"}

\* lines 242-246
Forward(msg) ==
  IF original_wndproc = "nullptr"
  THEN <<Call("DefWindowProc", msg)>>
  ELSE <<Call("original_wndproc", msg)>>

\* the close request returns after its dialog
WndProcCloseReturns(msg) ==
  IF msg \in DefaultClass THEN <<Call("DefWindowProc", msg)>>
  ELSE IF msg = "WM_CLOSE" THEN <<Call("MessageBox", msg)>>
  ELSE Forward(msg)

\* Forge::WndProc: the calls it makes for a message, in order.  The WM_CLOSE
\* case has no return and leaves the switch after the MessageBox.
WndProc(msg) ==
  IF msg \in DefaultClass THEN <<Call("DefWindowProc", msg)>>
  ELSE IF msg = "WM_CLOSE" THEN <<Call("MessageBox", msg)>> \o Forward(msg)
  ELSE Forward(msg)

\* the messages a window can be sent
WndMsgs == DefaultClass \cup {"WM_CLOSE", "WM_KEYDOWN"}

MsgArg(h, msg) == [argc |-> 0, text |-> <<>>, class |-> msg, params |-> <<h>>]

\* what an entry of Forge::WndProc can do: the calls it makes and whether the
\* process dies.  With no context, line 242 reads instance_->original_wndproc_
\* through a null instance_, which is undefined: the read faults, or it
\* yields null, or it yields some other value that is then called
WndProcOutcomes(msg) ==
  IF instance \/ msg \in DefaultClass
  THEN {[calls |-> WndProc(msg), crash |-> FALSE]}
  ELSE LET shown == IF msg = "WM_CLOSE" THEN <<Call("MessageBox", msg)>> ELSE <<>>
       IN {[calls |-> shown, crash |-> TRUE],
           [calls |-> shown \o <<Call("DefWindowProc", msg)>>, crash |-> FALSE],
           [calls |-> shown \o <<Call("wild pointer", msg)>>, crash |-> FALSE]}

\* a message reaches a window: the procedure installed on it is called
WndProcEntered ==
  /\ ~fatal
  /\ \E h \in Handles, msg \in WndMsgs :
       /\ os_wndproc[h] # "none"
       /\ IF os_wndproc[h] = "ForgeWndProc"
          THEN \E o \in WndProcOutcomes(msg) :
                 /\ fatal' = o.crash
                 /\ last' = Did("WndProc", MsgArg(h, msg), TRUE, NoAttempts, hooks,
                                o.calls)
          ELSE /\ fatal' = fatal
               /\ last' = Did("AppWndProc", MsgArg(h, msg), TRUE, NoAttempts, hooks,
                              <<Call("AppWndProc", msg)>>)
  /\ UNCHANGED <<ctx, os_wndproc, glaw, pump>>

\* DispatchMessage: the procedure installed on the intercepted window runs
DispatchMessage(msg) ==
  IF window_handle # NULL /\ os_wndproc[window_handle] = "ForgeWndProc"
  THEN WndProc(msg)
  ELSE <<Call("AppWndProc", msg)>>

(***************************************************************************)
(* Message Loop Worker.                                                    *)
(***************************************************************************)
Range(q) == {q[k] : k \in 1..Len(q)}

\* the threads: the control (script) thread that calls the exported methods,
\* and the UI thread that QueueWorkForUiThread hands the worker to
ControlThread == "control"
UiThread == "pump"

\* PostMessage: appends to the queue of the window's thread; fails when the
\* queue is full
PostMessage(q, msg) == IF Len(q) < MaxQueue THEN Append(q, msg) ELSE q

\* context->cb->Call(global, 2, { null, Boolean::New(context->quit) })
InvokeCallback(item, thread) ==
  [item EXCEPT !.calls = @ + 1, !.flag = item.quit, !.thread = thread,
               !.cb_state = item.state]

\* the worker reports the sentinel itself, from the UI thread, before returning
WorkerOnMessageCallsBack(item, msg) ==
  IF msg = "WM_QUIT"
  THEN [item |-> [item EXCEPT !.quit = TRUE, !.ended = "closure", !.state = "returned"],
        dispatch |-> FALSE]
  ELSE IF msg = Sentinel
  THEN [item |-> [InvokeCallback(item, UiThread) EXCEPT
                    !.ended = "sentinel", !.state = "returned"],
        dispatch |-> FALSE]
  ELSE [item |-> item, dispatch |-> TRUE]

\* the worker marks the item quit on the sentinel as well
WorkerOnMessageQuitAlways(item, msg) ==
  IF msg = "WM_QUIT"
  THEN [item |-> [item EXCEPT !.quit = TRUE, !.ended = "closure", !.state = "returned"],
        dispatch |-> FALSE]
  ELSE IF msg = Sentinel
  THEN [item |-> [item EXCEPT !.quit = TRUE, !.ended = "sentinel", !.state = "returned"],
        dispatch |-> FALSE]
  ELSE [item |-> item, dispatch |-> TRUE]

\* the worker does not recognise the sentinel and dispatches it
WorkerOnMessageNoSentinel(item, msg) ==
  IF msg = "WM_QUIT"
  THEN [item |-> [item EXCEPT !.quit = TRUE, !.ended = "closure", !.state = "returned"],
        dispatch |-> FALSE]
  ELSE [item |-> item, dispatch |-> TRUE]

\* the worker returns on the sentinel only after dispatching it
WorkerOnMessageDispatchesSentinel(item, msg) ==
  IF msg = "WM_QUIT"
  THEN [item |-> [item EXCEPT !.quit = TRUE, !.ended = "closure", !.state = "returned"],
        dispatch |-> FALSE]
  ELSE IF msg = Sentinel
  THEN [item |-> [item EXCEPT !.ended = "sentinel", !.state = "returned"],
        dispatch |-> TRUE]
  ELSE [item |-> item, dispatch |-> TRUE]

\* one turn of the loop of WndProcWorker on the message GetMessage retrieved:
\* GetMessage returns 0 for WM_QUIT and the worker sets quit and returns; it
\* returns on the sentinel; it translates and dispatches anything else
WorkerOnMessage(item, msg) ==
  IF msg = "WM_QUIT"
  THEN [item |-> [item EXCEPT !.quit = TRUE, !.ended = "closure", !.state = "returned"],
        dispatch |-> FALSE]
  ELSE IF msg = Sentinel
  THEN [item |-> [item EXCEPT !.ended = "sentinel", !.state = "returned"],
        dispatch |-> FALSE]
  ELSE [item |-> item, dispatch |-> TRUE]

\* runWndProc without its assert on window_handle_
RunWndProcUnchecked(argc) ==
  IF argc < 1
  THEN /\ fatal' = TRUE
       /\ UNCHANGED <<items, created, work_queue, idle_end>>
  ELSE /\ created' = created + 1
       /\ items' = [items EXCEPT ![created + 1] =
                      [NoItem EXCEPT !.state = "queued", !.idle_end = idle_end]]
       /\ work_queue' = Append(work_queue, created + 1)
       /\ idle_end' = "none"
       /\ UNCHANGED fatal

\* Forge::RunWndProc: the asserts, new WndProcContext, QueueWorkForUiThread
RunWndProcBody(argc) ==
  IF window_handle = NULL \/ argc < 1
  THEN /\ fatal' = TRUE
       /\ UNCHANGED <<items, created, work_queue, idle_end>>
  ELSE /\ created' = created + 1
       /\ items' = [items EXCEPT ![created + 1] =
                      [NoItem EXCEPT !.state = "queued", !.idle_end = idle_end]]
       /\ work_queue' = Append(work_queue, created + 1)
       /\ idle_end' = "none"
       /\ UNCHANGED fatal

\* Forge::RunWndProc
RunWndProc ==
  /\ ~fatal /\ instance /\ created < MaxRuns
  /\ \E argc \in 0..1 :
       /\ RunWndProcBody(argc)
       /\ last' = Did("RunWndProc", ScriptArgs(argc, <<>>), TRUE, NoAttempts, hooks, <<>>)
  /\ UNCHANGED <<ctx, os_wndproc, glaw, msg_queue, ui_running, after_queue, stops>>

\* whether a sentinel posted now is posted with no pump running or queued,
\* and whether a WM_QUIT is ahead of it
IdleEnd ==
  IF Len(msg_queue) < MaxQueue /\ ui_running = 0 /\ work_queue = <<>>
  THEN IF idle_end = "clean" \/ "WM_QUIT" \notin Range(msg_queue)
       THEN "clean" ELSE "behind_quit"
  ELSE idle_end

\* Forge::EndWndProc: the assert, then PostMessage of the sentinel
EndWndProcBody ==
  IF window_handle = NULL
  THEN /\ fatal' = TRUE
       /\ last' = Did("EndWndProc", NoArg, FALSE, NoAttempts, hooks, <<>>)
       /\ UNCHANGED <<msg_queue, idle_end, stops>>
  ELSE /\ msg_queue' = PostMessage(msg_queue, Sentinel)
       /\ stops' = stops + 1
       /\ idle_end' = IdleEnd
       /\ last' = Did("EndWndProc", NoArg, Len(msg_queue) < MaxQueue, NoAttempts, hooks, <<>>)
       /\ UNCHANGED fatal

\* Forge::EndWndProc
EndWndProc ==
  /\ ~fatal /\ instance /\ stops < MaxStops
  /\ EndWndProcBody
  /\ UNCHANGED <<ctx, os_wndproc, glaw, items, created, work_queue, ui_running,
                 after_queue>>

\* the system, the user or the application posts a message for the window
PostAppMessage ==
  /\ ~fatal /\ window_handle # NULL /\ Len(msg_queue) < MaxQueue
  /\ \E msg \in AppMsgs : msg_queue' = Append(msg_queue, msg)
  /\ last' = Op("PostAppMessage")
  /\ UNCHANGED <<ctx, fatal, os_wndproc, glaw, items, created, work_queue,
                 ui_running, after_queue, idle_end, stops>>

\* the UI thread takes the oldest queued work and enters WndProcWorker, which
\* begins with context->quit = false
WndProcWorkerStart ==
  /\ ~fatal /\ ui_running = 0 /\ work_queue # <<>>
  /\ ui_running' = Head(work_queue)
  /\ work_queue' = Tail(work_queue)
  /\ items' = [items EXCEPT ![Head(work_queue)] =
                 [@ EXCEPT !.state = "running", !.quit = FALSE]]
  /\ last' = Op("WndProcWorkerStart")
  /\ UNCHANGED <<ctx, fatal, os_wndproc, glaw, msg_queue, created, after_queue,
                 idle_end, stops>>

\* one turn of the loop of WndProcWorker, on the UI thread: GetMessage blocks
\* while the queue is empty.  When the worker returns, the after-callback is
\* handed to the control thread.
WndProcWorkerLoop ==
  /\ ~fatal /\ ui_running # 0 /\ msg_queue # <<>>
  /\ LET msg == Head(msg_queue)
         r == WorkerOnMessage(items[ui_running], msg)
     IN /\ msg_queue' = Tail(msg_queue)
        /\ items' = [items EXCEPT ![ui_running] = r.item]
        /\ IF r.item.state = "returned"
           THEN /\ ui_running' = 0
                /\ after_queue' = Append(after_queue, ui_running)
           ELSE UNCHANGED <<ui_running, after_queue>>
        /\ last' = Did("WndProcWorker", NoArg, TRUE, NoAttempts, hooks,
                       IF r.dispatch THEN DispatchMessage(msg) ELSE <<>>)
  /\ UNCHANGED <<ctx, fatal, os_wndproc, glaw, created, work_queue, idle_end,
                 stops>>

\* WndProcWorkerAfter, on the control thread: the handler is called, the
\* context is disposed and deleted, and an exception the handler threw is fatal
WndProcWorkerAfter ==
  /\ ~fatal /\ after_queue # <<>>
  /\ items' = [items EXCEPT ![Head(after_queue)] =
                 [InvokeCallback(@, ControlThread) EXCEPT !.state = "freed"]]
  /\ after_queue' = Tail(after_queue)
  /\ \E threw \in BOOLEAN : fatal' = threw
  /\ last' = Op("WndProcWorkerAfter")
  /\ UNCHANGED <<ctx, os_wndproc, glaw, msg_queue, created, work_queue,
                 ui_running, idle_end, stops>>

Next ==
  \/ Inject
  \/ Restore
  \/ SetVertexShader
  \/ SetFragmentShader
  \/ CreateWindowExAHook
  \/ RegisterDirectGlaw
  \/ Destroy
  \/ New

Spec == Init /\ [][Next]_vars

\* the application's calls into the replaced imports and the messages its
\* windows receive, while the control layer injects, restores, destroys and
\* constructs the context
AppNext ==
  \/ Inject
  \/ Restore
  \/ CreateWindowExAHook
  \/ GetSystemMetricsHook
  \/ GetProcAddressHook
  \/ WndProcEntered
  \/ Destroy
  \/ New

AppSpec == Init /\ [][AppNext]_vars

\* the control thread's calls, the messages posted to the window, the UI
\* thread's steps and the control thread's after-callback
PumpNext ==
  \/ PostAppMessage
  \/ RunWndProc
  \/ EndWndProc
  \/ WndProcWorkerStart
  \/ WndProcWorkerLoop
  \/ WndProcWorkerAfter

\* the state in which the pump is first asked for: after construction, an
\* inject() that patched all three entries and the game's request for its
\* window, which the original function answered with a window or with NULL
PumpInit ==
  /\ instance = TRUE
  /\ contexts = 1
  /\ hooks = [n \in HookNames |-> TRUE]
  /\ direct_glaw = NULL
  /\ vertex_shader_src = NullStr
  /\ fragment_shader_src = NullStr
  /\ fatal = FALSE
  /\ glaw = [refs |-> 0, vs |-> NullStr, fs |-> NullStr]
  /\ msg_queue = <<>>
  /\ items = [i \in ItemIds |-> NoItem]
  /\ created = 0
  /\ work_queue = <<>>
  /\ ui_running = 0
  /\ after_queue = <<>>
  /\ idle_end = "none"
  /\ stops = 0
  /\ \E ret \in {NULL} \cup Handles :
       LET w0 == [h \in Handles |-> "none"]
           w1 == Created(w0, ret)
       IN /\ window_handle = ret
          /\ original_wndproc = GetWindowLong(w1, ret)
          /\ os_wndproc = SetWindowLong(w1, ret, "ForgeWndProc")
          /\ \E req \in Requests, screen \in ScreenSizes :
               last = Returned(Did("CreateWindowExAHook", CreateArgs("SWarClass", req),
                                   TRUE, NoAttempts, hooks,
                                   MatchCalls("SWarClass", req, screen, ret)),
                               ret)

PumpSpec == PumpInit /\ [][PumpNext]_vars

\* the UI thread runs while it has work and a message to retrieve, and the
\* control thread's event loop runs the after-callbacks it was handed
FairPumpSpec ==
  /\ PumpSpec
  /\ WF_vars(WndProcWorkerStart)
  /\ WF_vars(WndProcWorkerLoop)
  /\ WF_vars(WndProcWorkerAfter)
(***************************************************************************)
(* Claims about the message pump (PumpSpec, FairPumpSpec).                 *)
(***************************************************************************)
\* the completion handler of run i has fired, carrying flag
Completed(i, flag) == items[i].calls = 1 /\ items[i].flag = flag

\* the handler of a run fires at most once, only after its worker left the
\* loop, with false after the sentinel and true after queue closure
C1_OnceWithTheRightFlag ==
  \A i \in ItemIds :
    /\ items[i].calls <= 1
    /\ items[i].state = "freed" => items[i].calls = 1
    /\ items[i].calls = 1 =>
         /\ items[i].ended # "none"
         /\ items[i].flag = (items[i].ended = "closure")

\* C1: for every run made after a window was recorded the completion handler
\* is invoked exactly once: never twice, and, once the pump has retrieved the
\* sentinel or queue closure, not zero times unless the process is aborted
\* first; its flag is false after the sentinel and true after queue closure.
C1_HandlerExactlyOnce ==
  /\ []C1_OnceWithTheRightFlag
  /\ \A i \in ItemIds :
       (items[i].ended # "none") ~> (items[i].calls = 1 \/ fatal)

\* one run has completed after the sentinel and another after queue closure
C1_Witness ==
  \E i, j \in ItemIds :
    /\ items[i].ended = "sentinel" /\ Completed(i, FALSE)
    /\ items[j].ended = "closure" /\ Completed(j, TRUE)

\* C2: the completion handler of a run never executes on the pump thread: it
\* runs on the control thread, after the worker of that item has returned,
\* and the flag it carries is the final value of the item's quit flag.
C2_HandlerOnControlThread ==
  \A i \in ItemIds :
    items[i].calls >= 1 =>
      /\ items[i].thread = ControlThread
      /\ items[i].cb_state = "returned"
      /\ items[i].flag = items[i].quit

\* a handler has run on the control thread for a worker that had returned
\* after the sentinel, while the UI thread is already pumping the next run
C2_Witness ==
  \E i \in ItemIds :
    /\ items[i].state = "freed" /\ items[i].thread = ControlThread
    /\ items[i].ended = "sentinel"
    /\ ui_running \notin {0, i}

\* endWndProc has just posted the sentinel while the worker of run i was
\* blocked in GetMessage on an empty queue
StopWhileBlocked(i) ==
  /\ ui_running = i
  /\ last.op = "EndWndProc" /\ last.result
  /\ msg_queue = <<Sentinel>>

AllInjected(h) == \A n \in HookNames : h[n]
NoneInjected(h) == \A n \in HookNames : ~h[n]

\* the step is a call of inject() or restore()
HookCall == last'.op \in {"Inject", "Restore"}

\* C4: inject() and restore() call every one of the three entries whether or
\* not an earlier one failed, return true exactly when all three individual
\* results are true, and roll nothing back: an entry whose call succeeded is
\* in the target state, an entry whose call failed is in the state it had.
C4_EveryEntryNoRollback ==
  [][HookCall =>
       /\ \A n \in HookNames : last'.attempts[n] \in {"ok", "failed"}
       /\ last'.result = (\A n \in HookNames : last'.attempts[n] = "ok")
       /\ \A n \in HookNames :
            /\ last'.attempts[n] = "ok" => hooks'[n] = (last'.op = "Inject")
            /\ last'.attempts[n] = "failed" => hooks'[n] = hooks[n]]_vars

\* inject() failed on the first entry, went on to patch the last one, and
\* left it patched
C4_Witness ==
  /\ last.op = "Inject" /\ ~last.result
  /\ last.attempts["CreateWindowExA"] = "failed" /\ ~hooks["CreateWindowExA"]
  /\ last.attempts["GetProcAddress"] = "ok" /\ hooks["GetProcAddress"]
  /\ ~last.before["GetProcAddress"]

\* the step is a successful restore() that directly follows a successful inject()
RoundTrip ==
  /\ last.op = "Inject" /\ last.result
  /\ last'.op = "Restore" /\ last'.result

\* C5 as claimed: whatever state an entry was in before, a successful
\* inject() followed by a successful restore() leaves it in that state.
C5_RoundTripFromAnyState ==
  [][RoundTrip => hooks' = last.before]_vars

\* C5, amended: a successful inject() followed by a successful restore()
\* leaves every entry Uninjected: an entry that was Uninjected before the
\* inject() is as it was, an entry that was Injected before it is not.
C5_RoundTripFromUninjected ==
  [][RoundTrip =>
       \A n \in HookNames :
         /\ ~hooks'[n]
         /\ ~last.before[n] => hooks'[n] = last.before[n]
         /\ last.before[n] => hooks'[n] # last.before[n]]_vars

\* a successful restore() of a fully injected table has left it uninjected
C5_Witness ==
  /\ last.op = "Restore" /\ last.result
  /\ AllInjected(last.before) /\ NoneInjected(hooks)

\* C6: inject() on a table whose entries are all Injected, and restore() on
\* one whose entries are all Uninjected, return success and change no
\* entry; for a single entry already in the target state the call is a
\* successful no-op whatever the other entries do.
C6_Idempotent ==
  [][HookCall =>
       /\ (last'.op = "Inject" /\ AllInjected(hooks)) =>
            (last'.result /\ hooks' = hooks)
       /\ (last'.op = "Restore" /\ NoneInjected(hooks)) =>
            (last'.result /\ hooks' = hooks)
       /\ \A n \in HookNames :
            hooks[n] = (last'.op = "Inject") =>
              (last'.attempts[n] = "ok" /\ hooks'[n] = hooks[n])]_vars

\* inject() has just succeeded on a table that was already fully injected
C6_Witness ==
  /\ last.op = "Inject" /\ last.result
  /\ AllInjected(last.before) /\ AllInjected(hooks)

\* the step is a creation request for the game window class
MatchingRequest ==
  last'.op = "CreateWindowExAHook" /\ last'.arg.class = "SWarClass"

\* C7: within one Hooking Context the window handle, the captured original
\* procedure and the backend reference are each set at most once: once one
\* of them is non-null no step changes it (a request whose original returned
\* a null handle records nothing, and a later request is served); a
\* matching-class request arriving after a window was recorded is fatal,
\* does not call the original creation function and changes no field.
C7_SetAtMostOnce ==
  [][/\ (instance /\ instance') =>
          /\ window_handle # NULL => window_handle' = window_handle
          /\ original_wndproc # "nullptr" => original_wndproc' = original_wndproc
          /\ direct_glaw # NULL => direct_glaw' = direct_glaw
     /\ (MatchingRequest /\ window_handle # NULL) =>
          /\ fatal'
          /\ last'.origCalls = <<>>
          /\ UNCHANGED <<ctx, os_wndproc>>]_vars

\* a second matching request has been stopped with the first window recorded
C7_Witness ==
  /\ fatal /\ last.op = "CreateWindowExAHook" /\ last.arg.class = "SWarClass"
  /\ window_handle # NULL /\ original_wndproc = "AppWndProc"
  /\ os_wndproc[window_handle] = "ForgeWndProc"

\* the step is a call of a shader setter with a source text
SetterCall(op) == last'.op = op /\ last'.arg.argc >= 1

\* C8: a shader setter called while no window is recorded replaces the
\* stored text of its own shader and leaves the other shader and every other
\* field of the context alone; called after a window was recorded it is
\* fatal and stores nothing; so while a context has a window recorded its
\* shader sources never change.
C8_ShaderSetters ==
  [][/\ (SetterCall("SetVertexShader") /\ window_handle = NULL) =>
          /\ vertex_shader_src' = <<CStr(last'.arg.text)>>
          /\ ~fatal'
          /\ UNCHANGED <<fragment_shader_src, instance, hooks, window_handle,
                         original_wndproc, direct_glaw>>
     /\ (SetterCall("SetFragmentShader") /\ window_handle = NULL) =>
          /\ fragment_shader_src' = <<CStr(last'.arg.text)>>
          /\ ~fatal'
          /\ UNCHANGED <<vertex_shader_src, instance, hooks, window_handle,
                         original_wndproc, direct_glaw>>
     /\ (last'.op \in {"SetVertexShader", "SetFragmentShader"}
           /\ window_handle # NULL) =>
          (fatal' /\ UNCHANGED ctx)
     /\ (instance /\ instance' /\ window_handle # NULL) =>
          UNCHANGED <<vertex_shader_src, fragment_shader_src>>]_vars

\* a setter has replaced a stored vertex source, the fragment source staying
C8_Witness ==
  /\ last.op = "SetVertexShader" /\ last.arg.argc = 1 /\ ~fatal
  /\ vertex_shader_src = <<CStr(last.arg.text)>>
  /\ fragment_shader_src \notin {NullStr, vertex_shader_src}

\* the references the context holds on the backend
HeldRefs == IF direct_glaw # NULL THEN 1 ELSE 0

\* C9: registration succeeds at most once per context: it is fatal when a
\* backend is already registered or when the vertex or the fragment source is
\* not configured; a successful registration takes exactly one reference and
\* pushes exactly the two configured sources into the backend; the reference
\* is released exactly once, by the destruction of the context.
C9_RegisterOnce ==
  /\ [](glaw.refs = HeldRefs)
  /\ [][/\ last'.op = "RegisterDirectGlaw" =>
             IF direct_glaw = NULL /\ vertex_shader_src # NullStr
                                   /\ fragment_shader_src # NullStr
             THEN /\ ~fatal'
                  /\ direct_glaw' = TheDirectGlaw
                  /\ glaw'.refs = glaw.refs + 1
                  /\ glaw'.vs = vertex_shader_src
                  /\ glaw'.fs = fragment_shader_src
             ELSE fatal' /\ UNCHANGED <<direct_glaw, glaw>>
        /\ last'.op = "Destroy" =>
             /\ glaw'.refs = glaw.refs - HeldRefs
             /\ direct_glaw' = NULL
        /\ last'.op \notin {"RegisterDirectGlaw", "Destroy"} =>
             UNCHANGED <<direct_glaw, glaw>>]_vars

\* a context that registered the backend has been destroyed and has given
\* its reference back
C9_Witness ==
  /\ last.op = "Destroy" /\ ~instance
  /\ glaw.vs # NullStr /\ glaw.fs # NullStr
  /\ glaw.refs = 0

\* the step is a call of runWndProc or endWndProc
PumpCall == last'.op \in {"RunWndProc", "EndWndProc"}

\* C10: runWndProc and endWndProc called while no window is recorded are
\* fatal, schedule no work item, post no sentinel and lead to no completion
\* handler: while the window handle is absent there is no work item, no
\* sentinel in the queue and no handler invocation.
C10_PumpNeedsWindow ==
  /\ [](window_handle = NULL =>
          /\ created = 0 /\ work_queue = <<>> /\ ui_running = 0
          /\ Sentinel \notin Range(msg_queue)
          /\ \A i \in ItemIds : items[i].calls = 0)
  /\ [][(PumpCall /\ window_handle = NULL) => (fatal' /\ UNCHANGED pump)]_vars

\* runWndProc was called with a handler and no window, and the process died
C10_Witness ==
  /\ fatal /\ last.op = "RunWndProc" /\ last.arg.argc = 1
  /\ window_handle = NULL /\ created = 0

\* C11: at most one hooking context exists at any time and instance_ is
\* non-null exactly while it exists: constructing a context while one exists
\* is fatal and changes nothing, constructing one while none exists makes it
\* the current instance, destruction clears the current instance, no other
\* operation changes either, and whenever no context exists (and the process
\* is alive) a new one can be constructed.
C11_SingleContext ==
  /\ [](contexts <= 1 /\ (instance <=> contexts = 1))
  /\ []((~instance /\ ~fatal) => ENABLED (New /\ instance' /\ ~fatal'))
  /\ [][/\ (last'.op = "New" /\ instance) => (fatal' /\ UNCHANGED ctx)
        /\ (last'.op = "New" /\ ~instance) =>
             (instance' /\ contexts' = 1 /\ ~fatal')
        /\ (last'.op = "Destroy") => (instance /\ ~instance' /\ contexts' = 0)
        /\ (last'.op \notin {"New", "Destroy"}) =>
             UNCHANGED <<instance, contexts>>]_vars

\* a context has been constructed after an earlier one, which had registered
\* the backend, was destroyed
C11_Witness ==
  /\ last.op = "New" /\ instance /\ ~fatal /\ contexts = 1
  /\ glaw.vs # NullStr /\ glaw.refs = 0

\* the step is a creation request for a class other than the game window's
PassthroughRequest ==
  last'.op = "CreateWindowExAHook" /\ last'.arg.class # "SWarClass"

\* C12: a creation request whose class is not the game window's class calls
\* the original creation function exactly once, with the class, style,
\* geometry and other arguments of the request, returns what the original
\* returned, is never fatal, and leaves the hooking context unchanged: no
\* handle is recorded, no procedure captured, and the chained procedure is
\* installed on no window, whether or not a window was already recorded.
C12_Passthrough ==
  [][PassthroughRequest =>
       /\ Len(last'.origCalls) = 1
       /\ last'.origCalls[1].fn = "CreateWindowExA"
       /\ last'.origCalls[1].arg = last'.arg.class
       /\ last'.origCalls[1].params = last'.arg.params
       /\ last'.ret = last'.origCalls[1].ret
       /\ UNCHANGED <<ctx, fatal>>
       /\ \A h \in Handles :
            os_wndproc'[h] = IF h = last'.ret THEN "AppWndProc" ELSE os_wndproc[h]]_vars

\* a request for a class that differs from the game window's only in case has
\* created a window, which was neither recorded nor chained
C12_Witness ==
  /\ last.op = "CreateWindowExAHook" /\ last.arg.class = "swarclass"
  /\ last.arg.params.nWidth = 800
  /\ last.ret # NULL /\ os_wndproc[last.ret] = "AppWndProc"
  /\ window_handle = NULL /\ original_wndproc = "nullptr" /\ ~fatal

\* the step is a request for the game window's class that reached the
\* original creation function
MatchingCreated ==
  /\ last'.op = "CreateWindowExAHook" /\ last'.arg.class = "SWarClass"
  /\ last'.origCalls # <<>>

\* the outer rectangle of the 640x480 client area centered over a screen of
\* the given width and height, as the style and geometry of a request
CenteredOver(req, cx, cy) ==
  LET left == CDiv(cx - 640, 2)
      top == CDiv(cy - 480, 2)
      outer == AdjustWindowRect([left |-> left, top |-> top, right |-> left + 640,
                                 bottom |-> top + 480], style)
  IN [dwStyle |-> style, x |-> outer.left, y |-> outer.top,
      nWidth |-> outer.right - outer.left, nHeight |-> outer.bottom - outer.top,
      others |-> req.others]

C14_MetricsSpoofer ==
  [][last'.op = "GetSystemMetricsHook" =>
       LET nIndex == last'.arg.params[1]
       IN /\ nIndex \in {SM_CXSCREEN, SM_CXFULLSCREEN} =>
               (last'.ret = 640 /\ last'.origCalls = <<>>)
          /\ nIndex \in {SM_CYSCREEN, SM_CYFULLSCREEN} =>
               (last'.ret = 480 /\ last'.origCalls = <<>>)
          /\ nIndex \notin {SM_CXSCREEN, SM_CXFULLSCREEN, SM_CYSCREEN, SM_CYFULLSCREEN} =>
               /\ Len(last'.origCalls) = 1
               /\ last'.origCalls[1] = MetricsCall(nIndex, last'.origCalls[1].ret)
               /\ last'.ret = last'.origCalls[1].ret
          /\ UNCHANGED <<ctx, fatal, os_wndproc>>]_vars

\* an index next to a spoofed one was forwarded and the original's negative
\* result was returned
C14_Witness ==
  /\ last.op = "GetSystemMetricsHook" /\ last.arg.params = <<15>>
  /\ last.ret = -1 /\ Len(last.origCalls) = 1

\* C15: the Symbol Redirector returns the substitute factory, without calling
\* the original resolver and whatever the module handle, when the name is
\* exactly DirectDrawCreate; for every other name it calls the original
\* resolver once with the module handle and name it was given and returns
\* that call's result; it changes no state.
C15_SymbolRedirector ==
  [][last'.op = "GetProcAddressHook" =>
       LET name == last'.arg.class
           hModule == last'.arg.params[1]
       IN /\ name = "DirectDrawCreate" =>
               (last'.ret = DirectGlawCreate /\ last'.origCalls = <<>>)
          /\ name # "DirectDrawCreate" =>
               /\ last'.origCalls = <<OrigGetProcAddress(hModule, name, last'.ret)>>
               /\ last'.ret # DirectGlawCreate
          /\ UNCHANGED <<ctx, fatal, os_wndproc>>]_vars

\* a name that differs from the factory's only in case was forwarded with its
\* module handle and the original's result returned
C15_Witness ==
  /\ last.op = "GetProcAddressHook" /\ last.arg.class = "directdrawcreate"
  /\ last.arg.params = <<2>>
  /\ last.ret = 7 /\ Len(last.origCalls) = 1

\* the step is an entry of the chained window procedure
ChainedEntry == last'.op = "WndProc"

\* C16: the chained procedure passes every non-client activation, hit-test,
\* mouse and paint message and the client paint message to DefWindowProc only;
\* every message that is neither of these nor a close request is forwarded,
\* by exactly one call, to the captured original procedure when one was
\* captured and to DefWindowProc otherwise.
C16_Routing ==
  [][ChainedEntry =>
       LET msg == last'.arg.class
       IN /\ msg \in DefaultClass =>
               last'.origCalls = <<Call("DefWindowProc", msg)>>
          /\ msg \notin DefaultClass \cup {"WM_CLOSE"} =>
               /\ ~fatal'
               /\ last'.origCalls =
                    <<Call(IF original_wndproc # "nullptr" THEN "original_wndproc"
                           ELSE "DefWindowProc", msg)>>]_vars

\* the step is a close request entering the chained window procedure
CloseRequest == ChainedEntry /\ last'.arg.class = "WM_CLOSE"

\* C17 as claimed: a close request presents the dialog exactly once and is
\* handled by no other row: nothing is forwarded.
C17_CloseOnlyShowsDialog ==
  [][CloseRequest => last'.origCalls = <<Call("MessageBox", "WM_CLOSE")>>]_vars

\* what the 'anything else' row does with msg in the current state: the
\* outcomes of a message of no special class, carrying msg
AnythingElseRow(msg) ==
  {[calls |-> [k \in 1..Len(o.calls) |-> [o.calls[k] EXCEPT !.arg = msg]],
    crash |-> o.crash] : o \in WndProcOutcomes("WM_KEYDOWN")}

\* C17, amended: a close request presents the fixed dialog exactly once,
\* before anything else, and is then handled by the 'anything else' row as
\* well, exactly as a message of no special class is.
C17_CloseShowsDialogThenForwards ==
  [][CloseRequest =>
       /\ last'.origCalls # <<>>
       /\ last'.origCalls[1] = Call("MessageBox", "WM_CLOSE")
       /\ \A k \in 2..Len(last'.origCalls) : last'.origCalls[k].fn # "MessageBox"
       /\ \E o \in AnythingElseRow("WM_CLOSE") :
            /\ Tail(last'.origCalls) = o.calls
            /\ fatal' = o.crash]_vars

\* a close request showed the dialog and was then forwarded to the captured
\* original procedure
C17_Witness ==
  /\ last.op = "WndProc" /\ last.arg.class = "WM_CLOSE" /\ instance /\ ~fatal
  /\ last.origCalls = <<Call("MessageBox", "WM_CLOSE"),
                        Call("original_wndproc", "WM_CLOSE")>>

\* C20: whenever the chained procedure is installed on a window, a hooking
\* context exists and instance_ is non-null.
C20_ChainedProcedureHasContext ==
  \A h \in Handles :
    os_wndproc[h] = "ForgeWndProc" => (instance /\ contexts = 1)

(***************************************************************************)
(* Claims about the sentinel (PumpSpec).                                   *)
(***************************************************************************)
\* the runs whose handler has fired with quitFlag = false
CompletedFalse == {i \in ItemIds : Completed(i, FALSE)}

\* the runs whose worker returned on the sentinel, and the sentinels waiting
SentinelEnded == {i \in ItemIds : items[i].ended = "sentinel"}
SentinelsQueued == {k \in 1..Len(msg_queue) : msg_queue[k] = Sentinel}

\* a false completion follows a retrieved sentinel, a retrieved sentinel was
\* posted by an endWndProc call and is gone from the queue, and no call the
\* worker made carries the sentinel
SentinelAccounting ==
  /\ CompletedFalse \subseteq SentinelEnded
  /\ Cardinality(SentinelEnded) + Cardinality(SentinelsQueued) <= stops
  /\ Cardinality(CompletedFalse) <= stops
  /\ last.op = "WndProcWorker" =>
       \A k \in 1..Len(last.origCalls) : last.origCalls[k].arg # Sentinel

\* one turn of the worker's loop on the message GetMessage retrieved (queue
\* closure, WM_QUIT, is what GetMessage reports by returning 0)
PumpTurn ==
  last'.op = "WndProcWorker" =>
    LET i == ui_running
        msg == Head(msg_queue)
    IN /\ msg_queue' = Tail(msg_queue)
       /\ msg \notin {Sentinel, "WM_QUIT"} =>
            /\ last'.origCalls = DispatchMessage(msg)
            /\ Len(last'.origCalls) >= 1
            /\ \A k \in 1..Len(last'.origCalls) : last'.origCalls[k].arg = msg
            /\ ui_running' = i
            /\ items'[i] = items[i]
       /\ msg = Sentinel =>
            /\ last'.origCalls = <<>>
            /\ ui_running' = 0
            /\ items'[i].ended = "sentinel" /\ ~items'[i].quit
       /\ (items'[i].ended = "sentinel" /\ items[i].ended # "sentinel") => msg = Sentinel

C19_StoredEqualsPushed ==
  direct_glaw # NULL =>
    /\ glaw.vs = vertex_shader_src
    /\ glaw.fs = fragment_shader_src

====
